---- MODULE Spec2Model ----
(***************************************************************************)
(* Motion-control core of the robot firmware: the trajectory state machine *)
(* (TrajectoryPlanning) and the rate-dividing scheduler (FBMotionControl). *)
(* Distances are integers in millimetres, angles integers in 1e-8 radian.  *)
(***************************************************************************)
EXTENDS Integers, Naturals, Sequences, FiniteSets, TLC

(* ------------------------------------------------------------------ *)
(* Program constants                                                   *)
(* ------------------------------------------------------------------ *)
MC_TASK_PERIOD_MS == 5
SENS_TASK_PERIOD_MS == 200
TP_TASK_PERIOD_MS == 200
PC_TASK_PERIOD_MS == 100
QueueLength == 10
PI_E8 == 314159265
TWO_PI_E8 == 628318531

(* ------------------------------------------------------------------ *)
(* Bounds of the model                                                 *)
(* ------------------------------------------------------------------ *)
MaxTime == 400
MaxSubmits == 2
MaxTimeQ == 1000
MaxSubmitsQ == 12
MaxRejects == 2
MaxTimeD == 1200
MaxTimeR == 400
MaxCursor == 12
MaxCycles == 12
ServoStep == 500
MaxTimeW == 300
TicksBeforeWrap == 80
MaxSubmitsW == 1
MaxSubmitsL == 2
MaxTimeSubmit == 200
PollBound == 2

(* state_t, TrajectoryPlanning.hpp:109 *)
FREE == "FREE"
LINEAR == "LINEAR"
ANGULAR == "ANGULAR"
STOP == "STOP"
KEEP == "KEEP"
LINEARPLAN == "LINEARPLAN"
CURVEPLAN == "CURVEPLAN"
STALLX == "STALLX"
STALLY == "STALLY"
DRAWPLAN == "DRAWPLAN"

(* command ids handled by FBMotionControl::Compute *)
CMD_ID_GOLIN == "CMD_ID_GOLIN"
CMD_ID_GOANG == "CMD_ID_GOANG"
CMD_ID_GOTO == "CMD_ID_GOTO"

VARIABLES
    enable,      \* FBMotionControl::enable
    safeguard,   \* FBMotionControl::safeguard
    status,      \* FBMotionControl::status (16 bits)
    localTime,   \* static uint32_t localTime of FBMotionControl::Compute
    Qorders,     \* FBMotionControl::Qorders, the FreeRTOS queue of cmd_t
    tp,          \* the TrajectoryPlanning object
    position,    \* the PositionControl servo as the core commands it
    odo,         \* the Odometry pose
    taskPc,      \* where the MotionControl task is inside Compute
    accepted,    \* number of orders the queue has accepted
    dequeued,    \* number of orders the scheduler has received
    rejected,    \* number of submits the full queue has refused
    last         \* what the last operation did

vars == <<enable, safeguard, status, localTime, Qorders, tp, position, odo,
          taskPc, accepted, dequeued, rejected, last>>

(* ------------------------------------------------------------------ *)
(* uint32_t arithmetic on two 16-bit limbs (TLC integers are 32-bit    *)
(* signed, the accumulator of Compute is 32-bit unsigned)              *)
(* ------------------------------------------------------------------ *)
Limb == 2^16

U32(n) == [hi |-> n \div Limb, lo |-> n % Limb]

AddU32(t, k) ==
    LET s == t.lo + k
    IN  [hi |-> (t.hi + (s \div Limb)) % Limb, lo |-> s % Limb]

ModU32(t, m) == (((t.hi % m) * (Limb % m)) + (t.lo % m)) % m

(* ------------------------------------------------------------------ *)
(* 16-bit status words                                                 *)
(* ------------------------------------------------------------------ *)
Bit(w, b) == (w \div (2^b)) % 2

SetBit(w, b) == IF Bit(w, b) = 1 THEN w ELSE w + 2^b

ClearBit(w, b) == IF Bit(w, b) = 1 THEN w - 2^b ELSE w

(* ------------------------------------------------------------------ *)
(* Geometry helpers of <math.h> as the code uses them                  *)
(* ------------------------------------------------------------------ *)
RECURSIVE SqrtSearch(_, _, _)
SqrtSearch(n, lo, hi) ==
    IF lo >= hi THEN lo
    ELSE LET mid == (lo + hi + 1) \div 2
         IN  IF mid * mid <= n THEN SqrtSearch(n, mid, hi)
             ELSE SqrtSearch(n, lo, mid - 1)

\* sqrtl on millimetres, rounded down to the millimetre
sqrtl(n) == SqrtSearch(n, 0, 46340)

pow2(v) == v * v

absf(val) == IF val < 0 THEN -val ELSE val

\* atan2f in 1e-8 rad, for the directions the model's points span.  The
\* float nearest to pi is 3.14159274, above the double _PI_.
atan2f(dY, dX) ==
    CASE dY = 0 /\ dX >= 0 -> 0
      [] dY = 0 /\ dX < 0 -> 314159274
      [] dX = 0 /\ dY > 0 -> 157079637
      [] dX = 0 /\ dY < 0 -> -157079637
      [] dX > 0 /\ dY = dX -> 78539816
      [] dX > 0 /\ dY = -dX -> -78539816
      [] dX < 0 /\ dY = -dX -> 235619449
      [] dX < 0 /\ dY = dX -> -235619449
      [] dX > 0 /\ 3 * dY = 4 * dX -> 92729522
      [] dX > 0 /\ 4 * dY = 3 * dX -> 64350111
      [] dX > 0 /\ dY = 2 * dX -> 110714872
      [] dX > 0 /\ dY = 4 * dX -> 132581766

(* ------------------------------------------------------------------ *)
(* The collaborators the trajectory machine calls.  A world w holds    *)
(* the TrajectoryPlanning object, the servo, the odometry and the log  *)
(* of the calls made on the collaborators during one operation.        *)
(* ------------------------------------------------------------------ *)
Call(f, v) == [f |-> f, v |-> v]

\* the setpoints a cycle pushed to the servo, in the order of the calls
Pushes(calls) ==
    SelectSeq(calls, LAMBDA c : c.f \in {"SetLinearPosition", "SetAngularPosition"})

positionEnable(w) ==
    [w EXCEPT !.position.enabled = TRUE, !.calls = Append(@, Call("Enable", 0))]

positionDisable(w) ==
    [w EXCEPT !.position.enabled = FALSE, !.calls = Append(@, Call("Disable", 0))]

SetLinearPosition(w, v) ==
    [w EXCEPT !.position.linear = v,
              !.calls = Append(@, Call("SetLinearPosition", v))]

SetAngularPosition(w, v) ==
    [w EXCEPT !.position.angular = v,
              !.calls = Append(@, Call("SetAngularPosition", v))]

positionCompute(w) == [w EXCEPT !.calls = Append(@, Call("Compute", 0))]

SetXO(w, x, o) ==
    [w EXCEPT !.odo.X = x, !.odo.O = o, !.calls = Append(@, Call("SetXO", o))]

SetYO(w, y, o) ==
    [w EXCEPT !.odo.Y = y, !.odo.O = o, !.calls = Append(@, Call("SetYO", o))]

(* ------------------------------------------------------------------ *)
(* TrajectoryPlanning: the orders                                      *)
(* ------------------------------------------------------------------ *)
TpInit ==
    [finished |-> TRUE, state |-> FREE, step |-> 0, status |-> 0,
     stallMode |-> 0,
     X |-> [i \in 0..9 |-> 0], Y |-> [i \in 0..9 |-> 0], XYn |-> 0,
     linearSetPoint |-> 0, linearNextSetPoint |-> 0, angularSetPoint |-> 0,
     startLinearPosition |-> 0, startAngularPosition |-> 0,
     endLinearPosition |-> 0, endAngularPosition |-> 0,
     n |-> 0]

goLinear(w, linear) ==
    [w EXCEPT !.tp.linearSetPoint = w.odo.L + linear,
              !.tp.state = LINEAR,
              !.tp.step = 1]

\* a goAngular that a machine with an order in progress refuses
goAngularWhenIdle(w, angular) ==
    IF w.tp.state = FREE \/ w.tp.state = STOP
    THEN [w EXCEPT !.tp.angularSetPoint = angular,
                   !.tp.state = ANGULAR,
                   !.tp.step = 1]
    ELSE w

goAngular(w, angular) ==
    [w EXCEPT !.tp.angularSetPoint = angular,
              !.tp.state = ANGULAR,
              !.tp.step = 1]

freewheel(w) == [w EXCEPT !.tp.state = FREE, !.tp.step = 1]

stop(w) == [w EXCEPT !.tp.state = STOP, !.tp.step = 1]

RECURSIVE UnwrapDown(_, _)
UnwrapDown(a, O) == IF a - O > PI_E8 THEN UnwrapDown(a - TWO_PI_E8, O) ELSE a

RECURSIVE UnwrapUp(_, _)
UnwrapUp(a, O) == IF a - O < -PI_E8 THEN UnwrapUp(a + TWO_PI_E8, O) ELSE a

\* the two "Faster path" loops, in the order the code runs them
FasterPath(a, O) == UnwrapUp(UnwrapDown(a, O), O)

\* a gotoXY that measures the distance from the origin of the table
gotoXYFromOrigin(w, X, Y) ==
    [w EXCEPT !.tp.linearSetPoint = w.odo.L + sqrtl(pow2(X) + pow2(Y)),
              !.tp.angularSetPoint = FasterPath(atan2f(Y - w.odo.Y, X - w.odo.X),
                                                w.odo.O),
              !.tp.state = LINEARPLAN,
              !.tp.step = 1]

gotoXY(w, X, Y) ==
    LET Xm == w.odo.X
        Ym == w.odo.Y
        Lm == w.odo.L
        XX == pow2(X - Xm)
        YY == pow2(Y - Ym)
        dX == X - Xm
        dY == Y - Ym
    IN  [w EXCEPT !.tp.linearSetPoint = Lm + sqrtl(XX + YY),
                  !.tp.angularSetPoint = FasterPath(atan2f(dY, dX), w.odo.O),
                  !.tp.state = LINEARPLAN,
                  !.tp.step = 1]

\* pushXY for a count the assert lets through (n < 10); Xs, Ys are sequences
pushXY(w, Xs, Ys, n) ==
    [w EXCEPT !.tp.X = [i \in 0..9 |-> IF i < n THEN Xs[i + 1] ELSE @[i]],
              !.tp.Y = [i \in 0..9 |-> IF i < n THEN Ys[i + 1] ELSE @[i]],
              !.tp.XYn = n,
              !.tp.state = DRAWPLAN,
              !.tp.step = 1]

\* pushXY for a count of 10 or more when the assert is compiled out (NDEBUG):
\* the loop stores n points; past the ten elements X[i] is the storage of
\* Y[i-10], and Y[10] the storage of XYn, which is set to n after the loop
pushXYUnchecked(w, Xs, Ys, n) ==
    [w EXCEPT !.tp.X = [i \in 0..9 |-> Xs[i + 1]],
              !.tp.Y = [i \in 0..9 |-> IF i + 10 < n THEN Xs[i + 11] ELSE Ys[i + 1]],
              !.tp.XYn = n,
              !.tp.state = DRAWPLAN,
              !.tp.step = 1]

stallX(w, stallMode) ==
    [w EXCEPT !.tp.startLinearPosition = w.odo.L,
              !.tp.startAngularPosition = w.odo.O,
              !.tp.endLinearPosition = w.odo.L - 0,
              !.tp.endAngularPosition = 0,
              !.tp.state = STALLX,
              !.tp.step = 1]

stallY(w, stallMode) ==
    [w EXCEPT !.tp.startLinearPosition = w.odo.L,
              !.tp.startAngularPosition = w.odo.O,
              !.tp.endLinearPosition = w.odo.L - 0,
              !.tp.endAngularPosition = PI_E8 \div 2,
              !.tp.state = STALLY,
              !.tp.step = 1]

isFinished(t) == t.finished

GetStep(t) == t.step

(* ------------------------------------------------------------------ *)
(* TrajectoryPlanning: one update cycle.  arrived is the answer of     *)
(* PositionControl::isPositioningFinished when it is asked; g is the   *)
(* value an out-of-range read of X[] or Y[] yields.                    *)
(* ------------------------------------------------------------------ *)
Tolerance == 100

\* a calculateGoLinear that polls the servo already in the cycle that pushes
calculateGoLinearEager(w, arrived) ==
    CASE w.tp.step = 1 ->
            LET a == SetLinearPosition(w, w.tp.linearSetPoint)
                b == SetAngularPosition(a, a.odo.O)
            IN  IF arrived THEN [b EXCEPT !.tp.step = 3, !.tp.state = FREE]
                ELSE [b EXCEPT !.tp.step = 2]
      [] w.tp.step = 2 ->
            IF arrived THEN [w EXCEPT !.tp.step = 3, !.tp.state = FREE] ELSE w
      [] OTHER -> w

calculateGoLinear(w, arrived) ==
    CASE w.tp.step = 1 ->
            LET a == SetLinearPosition(w, w.tp.linearSetPoint)
                b == SetAngularPosition(a, a.odo.O)
            IN  [b EXCEPT !.tp.step = 2]
      [] w.tp.step = 2 ->
            IF arrived THEN [w EXCEPT !.tp.step = 3, !.tp.state = FREE] ELSE w
      [] OTHER -> w

\* a calculateGoAngular that gives the rotation up after one poll
calculateGoAngularGivesUp(w, arrived) ==
    CASE w.tp.step = 1 ->
            LET a == SetLinearPosition(w, w.odo.L)
                b == SetAngularPosition(a, a.tp.angularSetPoint)
            IN  [b EXCEPT !.tp.step = 2]
      [] w.tp.step = 2 -> [w EXCEPT !.tp.step = 3, !.tp.state = FREE]
      [] OTHER -> w

calculateGoAngular(w, arrived) ==
    CASE w.tp.step = 1 ->
            LET a == SetLinearPosition(w, w.odo.L)
                b == SetAngularPosition(a, a.tp.angularSetPoint)
            IN  [b EXCEPT !.tp.step = 2]
      [] w.tp.step = 2 ->
            IF arrived THEN [w EXCEPT !.tp.step = 3, !.tp.state = FREE] ELSE w
      [] OTHER -> w

calculateFree(w) == positionDisable(w)

calculateMove(w) == positionEnable(w)

\* a calculateStop that leaves the servo as it is
calculateStopHolding(w) == w

calculateStop(w) == positionDisable(w)

calculateKeepPosition(w) == w

\* a calculateLinearPlan that drives to the point without rotating first
calculateLinearPlanDirect(w, arrived) ==
    CASE w.tp.step = 1 ->
            LET a == SetLinearPosition(w, w.tp.linearSetPoint)
                b == SetAngularPosition(a, a.tp.angularSetPoint)
            IN  [b EXCEPT !.tp.step = 5]
      [] w.tp.step = 5 ->
            IF arrived THEN [w EXCEPT !.tp.step = 6, !.tp.state = FREE] ELSE w
      [] OTHER -> w

\* a calculateLinearPlan that leaves the mode as it is on the last arrival
calculateLinearPlanStays(w, arrived) ==
    CASE w.tp.step = 1 ->
            LET a == SetLinearPosition(w, w.odo.L)
                b == SetAngularPosition(a, a.tp.angularSetPoint)
            IN  [b EXCEPT !.tp.step = 2]
      [] w.tp.step = 2 -> IF arrived THEN [w EXCEPT !.tp.step = 3] ELSE w
      [] w.tp.step = 3 -> [w EXCEPT !.tp.step = 4]
      [] w.tp.step = 4 ->
            LET a == SetLinearPosition(w, w.tp.linearSetPoint)
                b == SetAngularPosition(a, a.odo.O)
            IN  [b EXCEPT !.tp.step = 5]
      [] w.tp.step = 5 -> IF arrived THEN [w EXCEPT !.tp.step = 6] ELSE w
      [] OTHER -> w

calculateLinearPlan(w, arrived) ==
    CASE w.tp.step = 1 ->
            LET a == SetLinearPosition(w, w.odo.L)
                b == SetAngularPosition(a, a.tp.angularSetPoint)
            IN  [b EXCEPT !.tp.step = 2]
      [] w.tp.step = 2 -> IF arrived THEN [w EXCEPT !.tp.step = 3] ELSE w
      [] w.tp.step = 3 -> [w EXCEPT !.tp.step = 4]
      [] w.tp.step = 4 ->
            LET a == SetLinearPosition(w, w.tp.linearSetPoint)
                b == SetAngularPosition(a, a.odo.O)
            IN  [b EXCEPT !.tp.step = 5]
      [] w.tp.step = 5 ->
            IF arrived THEN [w EXCEPT !.tp.step = 6, !.tp.state = FREE] ELSE w
      [] OTHER -> w

\* X[i] and Y[i] of the ten-element arrays; an index outside 0..9 reads g
ReadX(t, i, g) == IF i \in 0..9 THEN t.X[i] ELSE g

ReadY(t, i, g) == IF i \in 0..9 THEN t.Y[i] ELSE g

RECURSIVE SegmentSum(_, _, _)
SegmentSum(t, i, g) ==
    IF i < t.XYn - 1
    THEN sqrtl(pow2(ReadX(t, i, g) - ReadX(t, i - 1, g))
               + pow2(ReadY(t, i, g) - ReadY(t, i - 1, g)))
         + SegmentSum(t, i + 1, g)
    ELSE 0

updateXYtoLA(w, n, g) ==
    LET Xm == w.odo.X
        Ym == w.odo.Y
        Lm == w.odo.L
        XX == pow2(ReadX(w.tp, n, g) - Xm)
        YY == pow2(ReadY(w.tp, n, g) - Ym)
        dX == ReadX(w.tp, n, g) - Xm
        dY == ReadY(w.tp, n, g) - Ym
        lin == Lm + sqrtl(XX + YY)
    IN  [w EXCEPT !.tp.linearSetPoint =
                      IF w.tp.XYn >= 2 THEN lin + SegmentSum(w.tp, n, g) ELSE lin,
                  !.tp.angularSetPoint = FasterPath(atan2f(dY, dX), w.odo.O),
                  !.tp.linearNextSetPoint = lin]

\* n >= this->XYn-1 on uint32_t: XYn-1 wraps to 2^32-1 when XYn is 0
LastReached(n, XYn) == IF XYn = 0 THEN FALSE ELSE n >= XYn - 1

DrawPlanStep2(w, g) ==
    LET a == updateXYtoLA(w, w.tp.n, g)
    IN  IF absf(a.tp.linearNextSetPoint - a.odo.L) <= Tolerance
        THEN LET n1 == a.tp.n + 1
                 b  == [a EXCEPT !.tp.n = n1,
                                 !.tp.step = IF LastReached(n1, a.tp.XYn)
                                             THEN 3 ELSE 2]
             IN  updateXYtoLA(b, n1, g)
        ELSE a

calculateDrawPlan(w, g) ==
    CASE w.tp.step = 1 ->
            DrawPlanStep2(updateXYtoLA([w EXCEPT !.tp.n = 0, !.tp.step = 2], 0, g), g)
      [] w.tp.step = 2 -> DrawPlanStep2(w, g)
      [] w.tp.step = 3 ->
            LET a == updateXYtoLA(w, w.tp.n, g)
            IN  IF absf(a.tp.linearSetPoint - a.odo.L) <= Tolerance
                THEN [a EXCEPT !.tp.step = 4] ELSE a
      [] w.tp.step = 4 ->
            LET a == updateXYtoLA(w, w.tp.n, g)
            IN  [a EXCEPT !.tp.step = 5, !.tp.state = FREE]
      [] OTHER -> w

calculateCurvePlan(w) == w

\* a calculateStallX that ends the order once the odometry is rebased
calculateStallXDone(w, mode) ==
    CASE w.tp.step = 1 -> [w EXCEPT !.tp.step = 2]
      [] w.tp.step = 2 -> SetXO([w EXCEPT !.tp.step = 3], 0, 0)
      [] w.tp.step = 3 -> [w EXCEPT !.tp.step = 4, !.tp.state = FREE]
      [] OTHER -> w

calculateStallX(w, mode) ==
    LET jackBackLeft == TRUE
        jackBackRight == TRUE
        a == CASE w.tp.step = 1 -> [w EXCEPT !.tp.step = 2]
               [] w.tp.step = 2 ->
                    IF jackBackLeft /\ jackBackRight
                    THEN [w EXCEPT !.tp.step = 3] ELSE w
               [] OTHER -> w
    IN  CASE a.tp.step = 1 -> SetAngularPosition(a, 0)
          [] a.tp.step = 3 -> SetXO(a, 0, 0)
          [] OTHER -> a

calculateStallY(w, mode) ==
    LET jackBackLeft == TRUE
        jackBackRight == TRUE
        a == CASE w.tp.step = 1 -> [w EXCEPT !.tp.step = 2]
               [] w.tp.step = 2 ->
                    IF jackBackLeft /\ jackBackRight
                    THEN [w EXCEPT !.tp.step = 3] ELSE w
               [] OTHER -> w
    IN  CASE a.tp.step = 1 -> SetAngularPosition(a, PI_E8 \div 2)
          [] a.tp.step = 3 -> SetYO(a, 0, PI_E8 \div 2)
          [] OTHER -> a

\* an update() that never raises the finished flag
updateFlagsBusy(w) ==
    IF w.tp.state # FREE /\ w.tp.state # STOP
    THEN calculateMove([w EXCEPT !.tp.status = SetBit(@, 8),
                                 !.tp.finished = FALSE])
    ELSE [w EXCEPT !.tp.status = ClearBit(@, 8), !.tp.finished = FALSE]

\* the first half of update(): the finished flag and the servo enable
updateFlags(w) ==
    IF w.tp.state # FREE /\ w.tp.state # STOP
    THEN calculateMove([w EXCEPT !.tp.status = SetBit(@, 8),
                                 !.tp.finished = FALSE])
    ELSE [w EXCEPT !.tp.status = ClearBit(@, 8), !.tp.finished = TRUE]

\* the second half of update(): the switch on the state
updateDispatch(w, arrived, g) ==
    CASE w.tp.state = LINEAR -> calculateGoLinear(w, arrived)
      [] w.tp.state = ANGULAR -> calculateGoAngular(w, arrived)
      [] w.tp.state = FREE -> calculateFree(w)
      [] w.tp.state = STOP -> calculateStop(w)
      [] w.tp.state = KEEP -> calculateKeepPosition(w)
      [] w.tp.state = LINEARPLAN -> calculateLinearPlan(w, arrived)
      [] w.tp.state = DRAWPLAN -> calculateDrawPlan(w, g)
      [] w.tp.state = CURVEPLAN -> calculateCurvePlan(w)
      [] w.tp.state = STALLX -> calculateStallX(w, 1)
      [] w.tp.state = STALLY -> calculateStallY(w, 1)
      [] OTHER -> w

update(w, arrived, g) == updateDispatch(updateFlags(w), arrived, g)

\* TrajectoryPlanning::Compute
tpCompute(w, arrived, g) ==
    update([w EXCEPT !.tp.status = SetBit(@, 0)], arrived, g)

(* ------------------------------------------------------------------ *)
(* FBMotionControl: the command queue                                  *)
(* ------------------------------------------------------------------ *)
Cmd(id, a, b) == [id |-> id, a |-> a, b |-> b, ticket |-> 0]

\* a receive that leaves the entry in the queue
xQueuePeek(q) ==
    IF q = <<>>
    THEN [ok |-> FALSE, got |-> <<>>, rest |-> q]
    ELSE [ok |-> TRUE, got |-> <<Head(q)>>, rest |-> q]

\* a receive that takes the newest entry
xQueueReceiveNewest(q) ==
    IF q = <<>>
    THEN [ok |-> FALSE, got |-> <<>>, rest |-> q]
    ELSE [ok |-> TRUE, got |-> <<q[Len(q)]>>, rest |-> SubSeq(q, 1, Len(q) - 1)]

\* xQueueReceive(Qorders, &cmd, 0): takes the oldest entry, pdTRUE iff one is there
xQueueReceive(q) ==
    IF q = <<>>
    THEN [ok |-> FALSE, got |-> <<>>, rest |-> q]
    ELSE [ok |-> TRUE, got |-> <<Head(q)>>, rest |-> Tail(q)]

\* submit: the order joins the tail unless the queue already holds QueueLength
xQueueSend(q, c) ==
    IF Len(q) < QueueLength
    THEN [ok |-> TRUE, rest |-> Append(q, c)]
    ELSE [ok |-> FALSE, rest |-> q]

\* FBMotionControl::Stop, the order the obstacle check issues
mcStop(w) == stop(w)

\* the switch on cmd.id in Compute
DispatchCmd(w, cmd) ==
    CASE cmd.id = CMD_ID_GOLIN -> goLinear(w, cmd.a)
      [] cmd.id = CMD_ID_GOANG -> goAngular(w, cmd.a)
      [] cmd.id = CMD_ID_GOTO -> gotoXY(w, cmd.a, cmd.b)
      [] OTHER -> w

\* the status refresh at the head of Compute
RefreshStatus(st, en, sg, fin) ==
    LET s0 == IF en THEN SetBit(st, 0) ELSE ClearBit(st, 0)
        s1 == IF sg THEN SetBit(s0, 1) ELSE ClearBit(s0, 1)
    IN  IF fin THEN SetBit(s1, 8) ELSE ClearBit(s1, 8)

\* an obstacle check that issues no Stop
ScheduleSensorIgnored(w, lt, detect) == w

\* the obstacle check of Compute at time lt
ScheduleSensor(w, lt, detect) ==
    IF ModU32(lt, SENS_TASK_PERIOD_MS) = 0 /\ detect THEN mcStop(w) ELSE w

\* a pull that does not wait for the machine to be finished
PullsOrderWhileBusy(w, lt) == ModU32(lt, TP_TASK_PERIOD_MS) = 0

\* whether Compute pulls an order at time lt
PullsOrder(w, lt) == ModU32(lt, TP_TASK_PERIOD_MS) = 0 /\ isFinished(w.tp)

\* "#1 Schedule TrajectoryPlanning" of Compute, given what the queue handed over
ScheduleTrajectory(w, lt, got, arrived, g) ==
    IF ModU32(lt, TP_TASK_PERIOD_MS) = 0
    THEN tpCompute(IF got # <<>> THEN DispatchCmd(w, got[1]) ELSE w, arrived, g)
    ELSE w

\* "#2 Schedule PositionControl" of Compute
SchedulePosition(w, lt) ==
    IF ModU32(lt, PC_TASK_PERIOD_MS) = 0 THEN positionCompute(w) ELSE w

\* Compute after its enable check: the three sub-schedules at time lt
Dispatch(w, q, lt, detect, arrived, g) ==
    LET w1 == ScheduleSensor(w, lt, detect)
        r  == IF PullsOrder(w1, lt) THEN xQueueReceive(q)
              ELSE [ok |-> FALSE, got |-> <<>>, rest |-> q]
        w2 == ScheduleTrajectory(w1, lt, r.got, arrived, g)
    IN  [w |-> SchedulePosition(w2, lt), q |-> r.rest, got |-> r.got]

(* ------------------------------------------------------------------ *)
(* State and operations                                                *)
(* ------------------------------------------------------------------ *)
World == [tp |-> tp, position |-> position, odo |-> odo, calls |-> <<>>]

Pre == [state |-> tp.state, step |-> tp.step, finished |-> tp.finished]

\* the record of an operation: which one, the calls it made on the servo and
\* the odometry, what it read and what it returned
Last(op) ==
    [op |-> op, calls |-> <<>>, sensed |-> "no", got |-> <<>>, tpRun |-> FALSE,
     arrived |-> FALSE, ok |-> TRUE, by |-> 0, arg |-> 0, pre |-> Pre,
     cycles |-> 0, pushed |-> FALSE]

\* whether update() asks the servo for arrival in the state it dispatches on
Polls(t) ==
    \/ t.state \in {LINEAR, ANGULAR} /\ t.step = 2
    \/ t.state = LINEARPLAN /\ t.step \in {2, 5}

Garbage == {0}

Pose(x, y, o, l) == [X |-> x, Y |-> y, O |-> o, L |-> l]

Poses ==
    {Pose(0, 0, 0, 0), Pose(1000, 0, 0, 1000),
     Pose(1000, 0, atan2f(0, -1), 1000), Pose(2000, 0, 0, 2000)}

Init ==
    /\ enable = TRUE
    /\ safeguard = TRUE
    /\ status = 0
    /\ localTime = U32(0)
    /\ Qorders = <<>>
    /\ tp = TpInit
    /\ position \in [enabled : BOOLEAN, linear : {0}, angular : {0}]
    /\ odo = Pose(0, 0, 0, 0)
    /\ taskPc = "idle"
    /\ accepted = 0
    /\ dequeued = 0
    /\ rejected = 0
    /\ last = Last("new")

\* the window of accumulator values explored: the first maxT milliseconds after
\* zero, and the values of the last limb before the accumulator wraps
InHorizon(maxT) ==
    \/ localTime.hi = 0 /\ localTime.lo < maxT
    \/ localTime.hi = Limb - 1

\* the sub-schedules of one Compute at time lt, and the record of them
RunDispatch(lt, detect, arrived, g) ==
    LET r  == Dispatch(World, Qorders, lt, detect, arrived, g)
        w1 == ScheduleSensor(World, lt, detect)
        tr == ModU32(lt, TP_TASK_PERIOD_MS) = 0
        t2 == IF r.got # <<>> THEN DispatchCmd(w1, r.got[1]).tp ELSE w1.tp
    IN  /\ tp' = r.w.tp
        /\ position' = r.w.position
        /\ odo' = r.w.odo
        /\ Qorders' = r.q
        /\ dequeued' = dequeued + Len(r.got)
        /\ last' = [Last("Compute") EXCEPT
                      !.calls = r.w.calls,
                      !.sensed = IF ModU32(lt, SENS_TASK_PERIOD_MS) # 0 THEN "no"
                                 ELSE IF detect THEN "obstacle" ELSE "clear",
                      !.got = r.got,
                      !.tpRun = tr,
                      !.arrived = tr /\ Polls(t2) /\ arrived]

\* lines 126-147 of Compute: the status refresh, the accumulator, the enable check
ComputeHead ==
    /\ status' = RefreshStatus(status, enable, safeguard, isFinished(tp))
    /\ localTime' = AddU32(localTime, MC_TASK_PERIOD_MS)

\* a Compute without its enable check
AlwaysSchedules(en) == TRUE

\* line 146 of Compute: the sub-schedules run only while enabled
SchedulesSubmodules(en) == en

\* FBMotionControl::Compute, run to completion
Compute(maxT, detect, arrived, g) ==
    /\ taskPc = "idle"
    /\ InHorizon(maxT)
    /\ ComputeHead
    /\ IF SchedulesSubmodules(enable)
       THEN RunDispatch(localTime', detect, arrived, g)
       ELSE /\ last' = Last("Compute")
            /\ UNCHANGED <<tp, position, odo, Qorders, dequeued>>
    /\ UNCHANGED <<enable, safeguard, taskPc, accepted, rejected>>

\* FBMotionControl::Enable
Enable ==
    /\ enable' = TRUE
    /\ position' = positionEnable(World).position
    /\ last' = [Last("Enable") EXCEPT !.calls = positionEnable(World).calls]
    /\ UNCHANGED <<safeguard, status, localTime, Qorders, tp, odo, taskPc,
                   accepted, dequeued, rejected>>

\* FBMotionControl::Disable
Disable ==
    /\ enable' = FALSE
    /\ position' = positionDisable(World).position
    /\ last' = [Last("Disable") EXCEPT !.calls = positionDisable(World).calls]
    /\ UNCHANGED <<safeguard, status, localTime, Qorders, tp, odo, taskPc,
                   accepted, dequeued, rejected>>

\* a producer p submits order c; a refusal is reported to the producer
Submit(p, c, maxS) ==
    /\ accepted < maxS
    /\ Len(Qorders) < QueueLength \/ rejected < MaxRejects
    /\ LET r == xQueueSend(Qorders, [c EXCEPT !.ticket = accepted + 1])
       IN  /\ Qorders' = r.rest
           /\ accepted' = IF r.ok THEN accepted + 1 ELSE accepted
           /\ rejected' = IF r.ok THEN rejected ELSE rejected + 1
           /\ last' = [Last("submit") EXCEPT !.ok = r.ok, !.by = p]
    /\ UNCHANGED <<enable, safeguard, status, localTime, tp, position, odo,
                   taskPc, dequeued>>

\* the robot moves: the odometry reports another pose
Move(p) ==
    /\ p # odo
    /\ odo' = p
    /\ last' = Last("move")
    /\ UNCHANGED <<enable, safeguard, status, localTime, Qorders, tp, position,
                   taskPc, accepted, dequeued, rejected>>

Producers == {1, 2}

Orders ==
    {Cmd(CMD_ID_GOLIN, 1000, 0), Cmd(CMD_ID_GOANG, PI_E8 \div 2, 0),
     Cmd(CMD_ID_GOTO, 3000, 4000), Cmd("Stop", 0, 0)}

(* ------------------------------------------------------------------ *)
(* Spec: the scheduler as the firmware wires it.  Compute is the only  *)
(* caller of the trajectory machine; producers submit orders.          *)
(* ------------------------------------------------------------------ *)
Tick == \E detect \in BOOLEAN, arrived \in BOOLEAN, g \in Garbage :
            Compute(MaxTime, detect, arrived, g)

Produce == \E p \in Producers, c \in Orders : Submit(p, c, MaxSubmits)

Next == Tick \/ Enable \/ Disable \/ Produce

Spec == Init /\ [][Next]_vars

(* ------------------------------------------------------------------ *)
(* SpecWrap: the scheduler around the wrap of its 32-bit accumulator.  *)
(* It starts idle, TicksBeforeWrap Computes before localTime reaches   *)
(* 2^32 - 1, the last multiple of MC_TASK_PERIOD_MS below 2^32.        *)
(* ------------------------------------------------------------------ *)
InitW ==
    /\ enable = TRUE
    /\ safeguard = TRUE
    /\ status = SetBit(SetBit(SetBit(0, 0), 1), 8)
    /\ localTime = [hi |-> Limb - 1,
                    lo |-> Limb - 1 - MC_TASK_PERIOD_MS * TicksBeforeWrap]
    /\ Qorders = <<>>
    /\ tp = [TpInit EXCEPT !.status = 1]
    /\ position = [enabled |-> FALSE, linear |-> 0, angular |-> 0]
    /\ odo = Pose(0, 0, 0, 0)
    /\ taskPc = "idle"
    /\ accepted = 0
    /\ dequeued = 0
    /\ rejected = 0
    /\ last = Last("Compute")

TickW == \E detect \in {FALSE}, arrived \in BOOLEAN, g \in Garbage :
             Compute(MaxTimeW, detect, arrived, g)

ProduceW == \E p \in {1} : Submit(p, Cmd(CMD_ID_GOLIN, 1000, 0), MaxSubmitsW)

NextW == TickW \/ Enable \/ Disable \/ ProduceW

SpecWrap == InitW /\ [][NextW]_vars

(* ------------------------------------------------------------------ *)
(* SpecLive: the scheduler stays enabled, the sensor sees nothing and  *)
(* the servo reports arrival at the PollBound-th poll at the latest;   *)
(* the task runs Compute at every period.                              *)
(* ------------------------------------------------------------------ *)
\* the cycles of the machine from one order's dispatch to the next one's, at
\* most: two waits for arrival, the steps between them, the lagging flag
OrderBudget == (2 * PollBound + 4) * TP_TASK_PERIOD_MS

MaxTimeL == MaxTimeSubmit + (MaxSubmitsL + 1) * OrderBudget

MovingOrders ==
    {Cmd(CMD_ID_GOLIN, 1000, 0), Cmd(CMD_ID_GOANG, PI_E8 \div 2, 0),
     Cmd(CMD_ID_GOTO, 3000, 4000)}

\* the servo has arrived at every PollBound-th cycle of the machine
ArrivalDue ==
    ModU32(AddU32(localTime, MC_TASK_PERIOD_MS), PollBound * TP_TASK_PERIOD_MS) = 0

TickL == \E detect \in {FALSE}, arrived \in BOOLEAN, g \in Garbage :
             /\ ArrivalDue => arrived
             /\ Compute(MaxTimeL, detect, arrived, g)

ProduceL ==
    /\ InHorizon(MaxTimeSubmit)
    /\ \E p \in {1}, c \in MovingOrders : Submit(p, c, MaxSubmitsL)

NextL == TickL \/ ProduceL

\* the step of the accumulator that every Compute of TickL makes, and only
\* Compute; it is enabled exactly when TickL is
ClockL ==
    /\ taskPc = "idle"
    /\ InHorizon(MaxTimeL)
    /\ localTime' = AddU32(localTime, MC_TASK_PERIOD_MS)

\* the task calls Compute at every period: the clock does not stop
SpecLive == Init /\ [][NextL]_vars /\ WF_localTime(ClockL)

(* ------------------------------------------------------------------ *)
(* SpecQueue: producers fill the queue to its capacity                 *)
(* ------------------------------------------------------------------ *)
TickQ == \E detect \in {FALSE}, arrived \in BOOLEAN, g \in Garbage :
             Compute(MaxTimeQ, detect, arrived, g)

ProduceQ == \E p \in Producers : Submit(p, Cmd(CMD_ID_GOLIN, 1000, 0), MaxSubmitsQ)

NextQ == TickQ \/ ProduceQ

SpecQueue == Init /\ [][NextQ]_vars

(* ------------------------------------------------------------------ *)
(* The orders of the trajectory machine issued by a direct call        *)
(* ------------------------------------------------------------------ *)
Issue(op, arg, w) ==
    /\ taskPc = "idle"
    /\ tp' = w.tp
    /\ last' = [Last(op) EXCEPT !.arg = arg]
    /\ UNCHANGED <<enable, safeguard, status, localTime, Qorders, position, odo,
                   taskPc, accepted, dequeued, rejected>>

Paths == {<<>>, <<<<1000, 0>>>>, <<<<1000, 0>>, <<2000, 0>>>>}

PathX(path) == [i \in 1..Len(path) |-> path[i][1]]

PathY(path) == [i \in 1..Len(path) |-> path[i][2]]

IssueGoLinear == \E d \in {1000} : Issue("goLinear", d, goLinear(World, d))

IssueGoAngular == \E a \in {PI_E8 \div 2} : Issue("goAngular", a, goAngular(World, a))

IssueFreewheel == Issue("freewheel", 0, freewheel(World))

IssueStop == Issue("stop", 0, stop(World))

IssueGotoXYTo(xy) == Issue("gotoXY", xy, gotoXY(World, xy[1], xy[2]))

IssueGotoXY == \E xy \in {<<3000, 4000>>} : IssueGotoXYTo(xy)

IssuePushXYOf(path) ==
    Issue("pushXY", path, pushXY(World, PathX(path), PathY(path), Len(path)))

IssuePushXY == \E path \in Paths : IssuePushXYOf(path)

IssueStallX == Issue("stallX", 0, stallX(World, 0))

IssueStallY == Issue("stallY", 0, stallY(World, 0))

(* ------------------------------------------------------------------ *)
(* SpecDirect: the scheduler, with the orders also issued directly     *)
(* ------------------------------------------------------------------ *)
TickD == \E detect \in BOOLEAN, arrived \in BOOLEAN, g \in Garbage :
             Compute(MaxTimeD, detect, arrived, g)

ProduceD == \E p \in {1} : Submit(p, Cmd(CMD_ID_GOLIN, 1000, 0), MaxSubmits)

\* the direct call is the first operation after construction
AtStart == last.op = "new"

NextD ==
    \/ TickD
    \/ ProduceD
    \/ AtStart /\ IssueGoLinear
    \/ AtStart /\ IssueGoAngular
    \/ AtStart /\ IssueFreewheel
    \/ AtStart /\ IssueStop
    \/ AtStart /\ IssueGotoXY
    \/ AtStart /\ IssuePushXY
    \/ AtStart /\ IssueStallX
    \/ AtStart /\ IssueStallY

SpecDirect == Init /\ [][NextD]_vars

(* ------------------------------------------------------------------ *)
(* SpecRace: Enable and Disable are called from another task and may   *)
(* run between the enable check of Compute and its sub-schedules       *)
(* ------------------------------------------------------------------ *)
ComputeEnter ==
    /\ taskPc = "idle"
    /\ InHorizon(MaxTimeR)
    /\ ComputeHead
    /\ taskPc' = IF SchedulesSubmodules(enable) THEN "dispatch" ELSE "idle"
    /\ last' = Last(IF SchedulesSubmodules(enable) THEN "enter" ELSE "Compute")
    /\ UNCHANGED <<enable, safeguard, Qorders, tp, position, odo, accepted,
                   dequeued, rejected>>

ComputeRun ==
    /\ taskPc = "dispatch"
    /\ \E detect \in BOOLEAN, arrived \in BOOLEAN, g \in Garbage :
           RunDispatch(localTime, detect, arrived, g)
    /\ taskPc' = "idle"
    /\ UNCHANGED <<enable, safeguard, status, localTime, accepted, rejected>>

ProduceR == \E p \in {1} : Submit(p, Cmd(CMD_ID_GOLIN, 1000, 0), MaxSubmits)

NextR == ComputeEnter \/ ComputeRun \/ Enable \/ Disable \/ ProduceR

SpecRace == Init /\ [][NextR]_vars

(* ------------------------------------------------------------------ *)
(* The trajectory machine on its own.  Its periodic task calls        *)
(* Compute, orders are issued at any moment between two cycles, and    *)
(* the robot moves.                                                    *)
(* ------------------------------------------------------------------ *)
\* what the elements of X[] that the constructor leaves unset may hold
Uninit == {0, 2000}

\* the object the constructor leaves on the heap: X[0], Y[0] and XYn are set
TpNew(u) == [TpInit EXCEPT !.X = [i \in 0..9 |-> IF i = 0 THEN 0 ELSE u]]

InitP ==
    /\ enable = TRUE
    /\ safeguard = TRUE
    /\ status = 0
    /\ localTime = U32(0)
    /\ Qorders = <<>>
    /\ tp \in {TpNew(u) : u \in Uninit}
    /\ position \in [enabled : BOOLEAN, linear : {0}, angular : {0}]
    /\ odo = Pose(0, 0, 0, 0)
    /\ taskPc = "idle"
    /\ accepted = 0
    /\ dequeued = 0
    /\ rejected = 0
    /\ last = Last("new")

\* one cycle of TrajectoryPlanning::taskHandler
tpTaskHandler ==
    /\ taskPc = "idle"
    /\ \E arrived \in BOOLEAN, g \in Garbage :
          LET w == tpCompute(World, arrived, g)
          IN  /\ tp' = w.tp
              /\ position' = w.position
              /\ odo' = w.odo
              /\ last' = [Last("update") EXCEPT !.calls = w.calls,
                                               !.arrived = Polls(tp) /\ arrived]
    /\ UNCHANGED <<enable, safeguard, status, localTime, Qorders, taskPc,
                   accepted, dequeued, rejected>>

\* pushXY with 10 points or more, the assert compiled in: the firmware aborts
IssuePushXYRefused(path) ==
    /\ taskPc = "idle"
    /\ taskPc' = "aborted"
    /\ last' = [Last("pushXY") EXCEPT !.arg = path, !.ok = FALSE]
    /\ UNCHANGED <<enable, safeguard, status, localTime, Qorders, tp, position,
                   odo, accepted, dequeued, rejected>>

\* pushXY with 10 points or more, the assert compiled out
IssuePushXYUnchecked(path) ==
    Issue("pushXY", path,
          pushXYUnchecked(World, PathX(path), PathY(path), Len(path)))

Targets == {<<3000, 4000>>, <<-1000, 0>>, <<1000, 1000>>}

\* k points along the X axis, 1 m apart; points past the tenth are the origin
Line(k) == [i \in 1..k |-> IF i <= 10 THEN <<1000 * i, 0>> ELSE <<0, 0>>]

PlanPaths == {Line(0), Line(1), Line(2), Line(9)}

LongPaths == {Line(10), Line(11)}

\* the robot already stands within the tolerance of both waypoints
NearPath == <<<<0, 0>>, <<50, 0>>>>

MoveP == taskPc = "idle" /\ \E p \in Poses : Move(p)

\* SpecGoto: gotoXY from every pose to every target, and the cycles after it
NextG ==
    \/ tpTaskHandler
    \/ MoveP
    \/ \E xy \in Targets : IssueGotoXYTo(xy)

SpecGoto == InitP /\ [][NextG]_vars

\* SpecPath: pushXY with every path length, the robot moving along the path
TickPath == tp.n < MaxCursor /\ tpTaskHandler

NextPath ==
    \/ TickPath
    \/ MoveP
    \/ \E path \in PlanPaths : IssuePushXYOf(path)
    \/ \E path \in LongPaths : IssuePushXYRefused(path)
    \/ \E path \in LongPaths : IssuePushXYUnchecked(path)

SpecPath == InitP /\ [][NextPath]_vars

\* SpecOrders: every order issued in every mode and at every step
NextO ==
    \/ tpTaskHandler
    \/ IssueGoLinear
    \/ IssueGoAngular
    \/ IssueFreewheel
    \/ IssueStop
    \/ IssueGotoXY
    \/ \E path \in {Line(2), NearPath} : IssuePushXYOf(path)
    \/ IssueStallX
    \/ IssueStallY

SpecOrders == InitP /\ [][NextO]_vars

(* ------------------------------------------------------------------ *)
(* SpecFollow: one accepted path, followed by a servo that closes the  *)
(* distance to the waypoint under the cursor by ServoStep or more per  *)
(* cycle of the trajectory task                                        *)
(* ------------------------------------------------------------------ *)
\* a path whose segments differ in length
Uneven == <<<<1000, 0>>, <<2000, 0>>, <<4000, 0>>>>

FollowPaths == {Line(1), Line(2), Line(3), Uneven}

\* the waypoint the servo drives to: the one under the cursor, and the last
\* waypoint of the path once the cursor has left the path
ServoTarget(t) ==
    LET i == IF t.n < t.XYn THEN t.n ELSE t.XYn - 1
    IN  <<t.X[i], t.Y[i]>>

\* the pose after the robot has closed up to d of its distance to the point
\* of abscissa x on the X axis
Approach(p, x, d) ==
    LET gap == x - p.X
        m == IF absf(gap) <= d THEN gap ELSE IF gap > 0 THEN d ELSE -d
    IN  [p EXCEPT !.X = p.X + m, !.L = p.L + absf(m)]

StartFollow == AtStart /\ \E path \in FollowPaths : IssuePushXYOf(path)

\* one cycle of the trajectory task, and the robot's motion until the next
FollowCycle ==
    /\ taskPc = "idle"
    /\ last.op # "new"
    /\ last.cycles < MaxCycles
    /\ \E g \in Garbage, d \in {ServoStep, 2 * ServoStep} :
          LET w == tpCompute(World, FALSE, g)
          IN  /\ tp' = w.tp
              /\ position' = w.position
              /\ odo' = IF w.tp.state = DRAWPLAN
                        THEN Approach(w.odo, ServoTarget(w.tp)[1], d)
                        ELSE w.odo
              /\ last' = [Last("update") EXCEPT
                            !.calls = w.calls,
                            !.cycles = last.cycles + 1,
                            !.pushed = last.pushed \/ Pushes(w.calls) # <<>>]
    /\ UNCHANGED <<enable, safeguard, status, localTime, Qorders, taskPc,
                   accepted, dequeued, rejected>>

NextF == StartFollow \/ FollowCycle

SpecFollow == InitP /\ [][NextF]_vars

(* ------------------------------------------------------------------ *)
(* Properties                                                          *)
(* ------------------------------------------------------------------ *)
Called(f) == \E i \in 1..Len(last.calls) : last.calls[i].f = f

Idle(st) == st \in {FREE, STOP}

\* C1: a Compute at the obstacle rate that finds an obstruction while an order
\* is in progress (mode not Free or Stop, isFinished() false) returns with the
\* mode Stop, whatever the queue holds; and isFinished() turns true only in an
\* operation that also disables the servo.
C1_ObstacleForcesStop ==
    /\ (/\ last.op = "Compute"
        /\ last.sensed = "obstacle"
        /\ ~Idle(last.pre.state)
        /\ ~last.pre.finished) => tp.state = STOP
    /\ (~last.pre.finished /\ tp.finished) => Called("Disable")

C1_Witness ==
    /\ last.op = "Compute"
    /\ last.sensed = "obstacle"
    /\ last.pre.state = LINEARPLAN
    /\ last.pre.step = 4
    /\ ~last.pre.finished
    /\ Qorders # <<>>
    /\ tp.state = STOP
    /\ tp.finished
    /\ Called("Disable")

\* C2: on a Compute that finds the sensor obstructed (as every obstacle-rate
\* Compute does once the sensor is permanently obstructed) the mode is Stop when
\* it returns and no setpoint is pushed to the servo, whatever the queue holds.
C2_SensorFaultHoldsStop ==
    (last.op = "Compute" /\ last.sensed = "obstacle") =>
        /\ tp.state = STOP
        /\ ~Called("SetLinearPosition")
        /\ ~Called("SetAngularPosition")

\* C3: an order leaves the queue only in a Compute at the trajectory rate, while
\* enabled and with the machine idle (mode Free or Stop, isFinished() true), and
\* one order at most leaves per Compute.
C3_PopOnlyWhenIdle ==
    [][(Qorders' # Qorders /\ Len(Qorders') <= Len(Qorders)) \/ dequeued' # dequeued
       => /\ last'.op = "Compute"
          /\ enable
          /\ ModU32(localTime', TP_TASK_PERIOD_MS) = 0
          /\ tp.finished
          /\ Idle(tp.state)
          /\ Qorders' = Tail(Qorders)
          /\ dequeued' = dequeued + 1
          /\ last'.got = <<Head(Qorders)>>]_vars

C3_Witness ==
    /\ last.op = "Compute"
    /\ last.got # <<>>
    /\ last.pre.finished
    /\ Len(Qorders) = 1

\* the mode that belongs to an order
ModeOfOrder(id) ==
    CASE id = CMD_ID_GOLIN -> LINEAR
      [] id = CMD_ID_GOANG -> ANGULAR
      [] id = CMD_ID_GOTO -> LINEARPLAN
      [] id = "FollowPath" -> DRAWPLAN
      [] id = "Freewheel" -> FREE
      [] id = "Stop" -> STOP
      [] id = "StallAlongX" -> STALLX
      [] id = "StallAlongY" -> STALLY

\* C4: after a Compute that popped an order the machine is in the mode that
\* belongs to that order, for every kind of order.
C4_PoppedOrderIsIssued ==
    (last.op = "Compute" /\ last.got # <<>>) =>
        tp.state = ModeOfOrder(last.got[1].id)

\* C5: the queue never holds more than 10 orders; a submit succeeds and appends
\* exactly when fewer than 10 are queued, and otherwise fails and leaves the
\* queue as it was; a Compute that pops removes the head, making room again.
C5_QueueCapacity ==
    [][/\ Len(Qorders') <= 10
       /\ last'.op = "submit" =>
             IF Len(Qorders) < 10
             THEN /\ last'.ok
                  /\ Len(Qorders') = Len(Qorders) + 1
                  /\ SubSeq(Qorders', 1, Len(Qorders)) = Qorders
             ELSE ~last'.ok /\ Qorders' = Qorders
       /\ (last'.op = "Compute" /\ last'.got # <<>>) =>
             Len(Qorders') = Len(Qorders) - 1]_vars

C5_Witness ==
    /\ last.op = "submit"
    /\ last.ok
    /\ rejected >= 1
    /\ dequeued = 1
    /\ accepted = 11
    /\ Len(Qorders) = 10

\* C6: whatever the interleaving of the producers' submits and the scheduler's
\* Compute, the orders received so far and the orders queued are, in this order,
\* the accepted orders in the order of their acceptance, each once; the queue
\* holds between 0 and 10 orders.
C6_FifoExactlyOnce ==
    /\ Len(Qorders) = accepted - dequeued
    /\ Len(Qorders) \in 0..10
    /\ \A i \in 1..Len(Qorders) : Qorders[i].ticket = dequeued + i
    /\ (last.op = "Compute" /\ last.got # <<>>) => last.got[1].ticket = dequeued

C6_Witness ==
    /\ last.op = "Compute"
    /\ last.got # <<>>
    /\ dequeued = 2
    /\ Len(Qorders) >= 2
    /\ rejected >= 1

\* C7: a Compute taken while the enable flag is false consults no sensor, pops
\* no order, ticks neither the trajectory machine nor the servo and leaves the
\* queue, the machine, the servo and the odometry unchanged; the status word is
\* refreshed and has bit 0 clear.
C7_DisabledTickIsInert ==
    [][(last'.op = "Compute" /\ ~enable)
       => /\ UNCHANGED <<Qorders, tp, position, odo, dequeued>>
          /\ last'.sensed = "no"
          /\ last'.got = <<>>
          /\ ~last'.tpRun
          /\ last'.calls = <<>>
          /\ Bit(status', 0) = 0
          /\ status' = RefreshStatus(status, FALSE, safeguard, tp.finished)]_vars

C7_Witness ==
    /\ last.op = "Compute"
    /\ ~enable
    /\ Qorders # <<>>
    /\ tp.finished
    /\ ModU32(localTime, TP_TASK_PERIOD_MS) = 0
    /\ localTime # U32(0)

\* C8: while the enable flag is false (Disable has returned and Enable has not
\* been called since) no Compute commands the servo enabled or runs its
\* periodic step.
C8_DisabledServoStaysOff ==
    (last.op = "Compute" /\ ~enable) => ~Called("Enable") /\ ~Called("Compute")

\* C9: isFinished() is true exactly when the mode is Free or Stop.
C9_FinishedIffIdle == tp.finished <=> Idle(tp.state)

\* C10: right after goLinear(d) the linear setpoint is the odometry's linear
\* position plus d and isFinished() is false.
C10_GoLinearNotFinished ==
    last.op = "goLinear" =>
        /\ tp.linearSetPoint = odo.L + last.arg
        /\ ~tp.finished

\* the bearing of the point last.arg as seen from the pose
Bearing == atan2f(last.arg[2] - odo.Y, last.arg[1] - odo.X)

\* C11: right after gotoXY the angular setpoint lies in (heading - pi,
\* heading + pi], differs from atan2(dy, dx) by a whole number of full turns,
\* and a bearing half a turn behind the robot is stored as heading + pi, on
\* the positive side of the heading.
C11_UnwrapInterval ==
    last.op = "gotoXY" =>
        /\ tp.angularSetPoint > odo.O - PI_E8
        /\ tp.angularSetPoint <= odo.O + PI_E8
        /\ \E k \in -2..2 : tp.angularSetPoint = Bearing + k * TWO_PI_E8
        /\ absf(Bearing - odo.O) = atan2f(0, -1) => tp.angularSetPoint > odo.O

\* C12: right after gotoXY(x, y) the linear setpoint is the odometry's linear
\* position plus the Euclidean distance from the robot's position to (x, y)
\* (to the millimetre), the mode is LinearPlan and step is 1; from the pose
\* (0, 0, 0) the target (3 m, 4 m) gives a setpoint 5 m ahead.
C12_GotoLinearSetPoint ==
    last.op = "gotoXY" =>
        LET d == tp.linearSetPoint - odo.L
            q == pow2(last.arg[1] - odo.X) + pow2(last.arg[2] - odo.Y)
        IN  /\ d >= 0
            /\ d * d <= q
            /\ q < (d + 1) * (d + 1)
            /\ tp.state = LINEARPLAN
            /\ tp.step = 1
            /\ (odo = Pose(0, 0, 0, 0) /\ last.arg = <<3000, 4000>>) => d = 5000

C12_Witness ==
    /\ last.op = "gotoXY"
    /\ last.arg = <<3000, 4000>>
    /\ odo = Pose(0, 0, 0, 0)
    /\ last.pre.state = LINEARPLAN
    /\ last.pre.step = 5
    /\ tp.linearSetPoint = 5000
    /\ tp.state = LINEARPLAN
    /\ tp.step = 1

\* C13: a pushXY with more than 10 points leaves the mode, the step and the
\* waypoint buffer as they were, and the machine keeps running.
C13_LongPathRejected ==
    [][(last'.op = "pushXY" /\ Len(last'.arg) > 10)
       => /\ tp'.state = tp.state
          /\ tp'.step = tp.step
          /\ tp'.X = tp.X
          /\ tp'.Y = tp.Y
          /\ tp'.XYn = tp.XYn
          /\ taskPc' = "idle"]_vars

\* C14: right after a pushXY with 1 to 10 points the order is accepted: the
\* points are stored in order in X[] and Y[], XYn is their number, the mode is
\* DrawPlan and step is 1.
C14_PathAccepted ==
    (last.op = "pushXY" /\ Len(last.arg) \in 1..10) =>
        /\ taskPc = "idle"
        /\ tp.state = DRAWPLAN
        /\ tp.step = 1
        /\ tp.XYn = Len(last.arg)
        /\ \A i \in 1..Len(last.arg) :
              tp.X[i - 1] = last.arg[i][1] /\ tp.Y[i - 1] = last.arg[i][2]

\* the cycles a servo closing ServoStep per cycle needs for the path in the
\* buffer: its length, one cycle per waypoint and the two closing steps
CycleBudget(t) == (t.X[t.XYn - 1] \div ServoStep) + t.XYn + 2

\* C15: for a fixed accepted path, with the pose closing the distance to the
\* current waypoint by ServoStep or more per cycle, the cursor never
\* decreases, the mode is Free after a bounded number of cycles for every
\* path length, and Free is entered only with the last waypoint of the path
\* within the tolerance.
C15_DrawPlanTerminates ==
    [][/\ tp'.n >= tp.n
       /\ (tp'.state = DRAWPLAN => last'.cycles <= CycleBudget(tp'))
       /\ (tp.state = DRAWPLAN /\ tp'.state = FREE) =>
             absf(tp'.X[tp'.XYn - 1] - odo'.X) <= Tolerance]_vars

\* the order methods, and the mode that belongs to each
IssueOps ==
    {"goLinear", "goAngular", "freewheel", "stop", "gotoXY", "pushXY", "stallX",
     "stallY"}

ModeOfOp(op) ==
    CASE op = "goLinear" -> LINEAR
      [] op = "goAngular" -> ANGULAR
      [] op = "freewheel" -> FREE
      [] op = "stop" -> STOP
      [] op = "gotoXY" -> LINEARPLAN
      [] op = "pushXY" -> DRAWPLAN
      [] op = "stallX" -> STALLX
      [] op = "stallY" -> STALLY

\* the steps a mode can be at after the first cycle of its order
SecondSteps(st) ==
    CASE st \in {FREE, STOP} -> {1}
      [] st = DRAWPLAN -> {2, 3}
      [] OTHER -> {2}

\* C16: an order issued in any mode and at any step sets the mode that belongs
\* to it and step 1, and the cycle that follows runs the first step of the new
\* order: it leaves the machine in the new mode at that mode's second step.
C16_OrderOverwrites ==
    [][/\ last'.op \in IssueOps =>
             tp'.state = ModeOfOp(last'.op) /\ tp'.step = 1
       /\ (last.op \in IssueOps /\ last'.op = "update") =>
             /\ tp'.state = ModeOfOp(last.op)
             /\ tp'.step \in SecondSteps(tp'.state)]_vars

C16_Witness ==
    /\ last.op = "goAngular"
    /\ last.pre.state = LINEARPLAN
    /\ last.pre.step = 4
    /\ ~last.pre.finished
    /\ tp.state = ANGULAR
    /\ tp.step = 1

\* bit b of a status word is set exactly when the flag is true
BitIs(w, b, flag) == Bit(w, b) = (IF flag THEN 1 ELSE 0)

\* C17: when a Compute returns, bit 0 of the status word is the enable flag,
\* bit 1 the safeguard flag, bit 8 what isFinished() answers at that moment,
\* and every other bit is 0.
C17_StatusWordOnReturn ==
    last.op = "Compute" =>
        /\ BitIs(status, 0, enable)
        /\ BitIs(status, 1, safeguard)
        /\ BitIs(status, 8, isFinished(tp))
        /\ \A b \in (0..15) \ {0, 1, 8} : Bit(status, b) = 0

\* C18: the step counter of the trajectory machine is at least 1 in every
\* reachable state, the state after construction included.
C18_StepAtLeastOne == GetStep(tp) >= 1

\* the steps of the sub-protocol of a mode other than Free
StepDomain(st) ==
    CASE st \in {LINEAR, ANGULAR} -> 1..2
      [] st = LINEARPLAN -> 1..5
      [] st = DRAWPLAN -> 1..4
      [] st \in {STALLX, STALLY} -> 1..3
      [] st = STOP -> {1}
      [] OTHER -> {}

\* C19: in every mode other than Free the step lies in the domain of the
\* mode's sub-protocol (Linear and Angular 1..2, LinearPlan 1..5, DrawPlan
\* 1..4, StallX and StallY 1..3); a step past the last step of a sub-protocol
\* occurs only together with the mode Free.
C19_StepInDomain == tp.state # FREE => tp.step \in StepDomain(tp.state)

C19_Witness ==
    /\ last.op = "update"
    /\ last.pre.state = LINEARPLAN
    /\ last.pre.step = 5
    /\ last.arrived
    /\ tp.state = FREE
    /\ tp.step = 6

\* C20: a cycle in mode Linear or Angular at step 1 pushes the two setpoints
\* once (Linear: the target linear and the current angular position; Angular:
\* the current linear position and the target angle), keeps the mode and moves
\* to step 2; a cycle at step 2 pushes nothing, and changes the mode to Free
\* exactly when the servo reports arrival.
C20_PushThenPoll ==
    [][(last'.op = "update" /\ tp.state \in {LINEAR, ANGULAR} /\ tp.step \in {1, 2})
       => IF tp.step = 1
          THEN /\ Pushes(last'.calls) =
                     IF tp.state = LINEAR
                     THEN <<Call("SetLinearPosition", tp.linearSetPoint),
                            Call("SetAngularPosition", odo.O)>>
                     ELSE <<Call("SetLinearPosition", odo.L),
                            Call("SetAngularPosition", tp.angularSetPoint)>>
               /\ tp'.state = tp.state
               /\ tp'.step = 2
          ELSE /\ Pushes(last'.calls) = <<>>
               /\ tp'.state = IF last'.arrived THEN FREE ELSE tp.state
               /\ tp'.step = IF last'.arrived THEN 3 ELSE 2]_vars

C20_Witness ==
    /\ last.op = "update"
    /\ last.pre.state = LINEAR
    /\ last.pre.step = 2
    /\ last.arrived
    /\ Pushes(last.calls) = <<>>
    /\ tp.state = FREE
    /\ tp.step = 3

\* C21: a gotoXY order is executed as rotate-then-translate, one step per
\* cycle in the order 1, 2, 3, 4, 5: step 1 pushes the current linear position
\* and the bearing, step 2 waits for the servo to report arrival, step 3 passes,
\* step 4 pushes the target linear setpoint and the current heading, step 5
\* waits for arrival and only then sets the mode Free.
C21_RotateThenTranslate ==
    [][(last'.op = "update" /\ tp.state = LINEARPLAN /\ tp.step \in 1..5)
       => /\ Pushes(last'.calls) =
                CASE tp.step = 1 -> <<Call("SetLinearPosition", odo.L),
                                      Call("SetAngularPosition", tp.angularSetPoint)>>
                  [] tp.step = 4 -> <<Call("SetLinearPosition", tp.linearSetPoint),
                                      Call("SetAngularPosition", odo.O)>>
                  [] OTHER -> <<>>
          /\ tp'.step = CASE tp.step \in {2, 5} ->
                                IF last'.arrived THEN tp.step + 1 ELSE tp.step
                          [] OTHER -> tp.step + 1
          /\ tp'.state = IF tp.step = 5 /\ last'.arrived THEN FREE ELSE LINEARPLAN]_vars

C21_Witness ==
    /\ last.op = "update"
    /\ last.pre.state = LINEARPLAN
    /\ last.pre.step = 4
    /\ Pushes(last.calls) = <<Call("SetLinearPosition", 5000),
                              Call("SetAngularPosition", 0)>>
    /\ position.angular = 0
    /\ tp.state = LINEARPLAN
    /\ tp.step = 5

\* C22: after a stall order the servo is first commanded to rotate, to 0 for
\* stallX and to pi/2 for stallY, in the cycle that starts at step 1; the
\* odometry is rebased only in a cycle that ends at step 3, and never in the
\* cycle that starts at step 1.
CalledIn(calls, f, v) == \E i \in 1..Len(calls) : calls[i] = Call(f, v)

C22_StallRotatesFirst ==
    [][(last'.op = "update" /\ tp.state \in {STALLX, STALLY})
       => /\ tp.step = 1 =>
                /\ CalledIn(last'.calls, "SetAngularPosition",
                            IF tp.state = STALLX THEN 0 ELSE PI_E8 \div 2)
                /\ ~ CalledIn(last'.calls, "SetXO", 0)
                /\ ~ CalledIn(last'.calls, "SetYO", PI_E8 \div 2)
          /\ (\/ CalledIn(last'.calls, "SetXO", 0)
              \/ CalledIn(last'.calls, "SetYO", PI_E8 \div 2)) => tp'.step = 3]_vars

\* what the stall cycles do have: the rebase comes in a cycle that ends at
\* step 3, the second cycle after the order at the earliest
StallRebaseAtStepThree ==
    [][(last'.op = "update" /\ tp.state \in {STALLX, STALLY})
       => /\ tp.step = 1 => /\ ~ CalledIn(last'.calls, "SetXO", 0)
                            /\ ~ CalledIn(last'.calls, "SetYO", PI_E8 \div 2)
                            /\ tp'.step = 2
          /\ (\/ CalledIn(last'.calls, "SetXO", 0)
              \/ CalledIn(last'.calls, "SetYO", PI_E8 \div 2)) => tp'.step = 3]_vars

\* the length of the path from waypoint n to the last waypoint
RECURSIVE FollowingSegments(_, _)
FollowingSegments(t, n) ==
    IF n < t.XYn - 1
    THEN sqrtl(pow2(t.X[n + 1] - t.X[n]) + pow2(t.Y[n + 1] - t.Y[n]))
         + FollowingSegments(t, n + 1)
    ELSE 0

DistanceTo(t, n) == sqrtl(pow2(t.X[n] - odo.X) + pow2(t.Y[n] - odo.Y))

\* the cursor a DrawPlan cycle starts with: step 1 resets it
CursorAtStart == IF tp.step = 1 THEN 0 ELSE tp.n

\* the cursor advances by one exactly when waypoint n is within tolerance
CursorAdvances ==
    [][(last'.op = "update" /\ tp.state = DRAWPLAN /\ tp.step \in {1, 2}
        /\ CursorAtStart < tp.XYn)
       => tp'.n = IF DistanceTo(tp, CursorAtStart) <= Tolerance
                  THEN CursorAtStart + 1 ELSE CursorAtStart]_vars

\* C23: on every DrawPlan cycle that leaves the cursor n on a waypoint of the
\* path, the linear setpoint is the linear position plus the distance to
\* waypoint n plus the lengths of the segments from waypoint n to the last
\* waypoint; and in steps 1 and 2 the cursor advances by one exactly when
\* the waypoint under it is within the tolerance.
C23_SetPointIsRemainingPath ==
    [][(last'.op = "update" /\ tp.state = DRAWPLAN /\ tp'.n < tp'.XYn)
       => /\ tp'.linearSetPoint =
                odo.L + DistanceTo(tp', tp'.n) + FollowingSegments(tp', tp'.n)
          /\ (tp.step \in {1, 2} /\ CursorAtStart < tp.XYn)
             => tp'.n = IF DistanceTo(tp, CursorAtStart) <= Tolerance
                        THEN CursorAtStart + 1 ELSE CursorAtStart]_vars

\* 2^32 modulo m
Pow32Mod(m) == ((Limb % m) * (Limb % m)) % m

\* the time elapsed since start-up, modulo m, for an accumulator value lt of
\* SpecWrap: lt itself in the last limb before the wrap, 2^32 + lt after it
ElapsedMod(lt, m) ==
    IF lt.hi = Limb - 1 THEN ModU32(lt, m) ELSE (Pow32Mod(m) + ModU32(lt, m)) % m

LessU32(a, b) == a.hi < b.hi \/ (a.hi = b.hi /\ a.lo < b.lo)

\* the rate division while the accumulator has not wrapped
RateDivisionBeforeWrap ==
    [][(last'.op = "Compute" /\ localTime'.hi = Limb - 1)
       => /\ LessU32(localTime, localTime')
          /\ enable =>
               /\ last'.tpRun <=> ElapsedMod(localTime', TP_TASK_PERIOD_MS) = 0
               /\ (last'.sensed # "no")
                     <=> ElapsedMod(localTime', SENS_TASK_PERIOD_MS) = 0
               /\ CalledIn(last'.calls, "Compute", 0)
                     <=> ElapsedMod(localTime', PC_TASK_PERIOD_MS) = 0]_vars

\* C24: the accumulator increases on every Compute, and while the scheduler is
\* enabled the trajectory machine and the obstacle check run exactly in the
\* Computes that complete a multiple of 200 ms of elapsed time, the servo in
\* those that complete a multiple of 100 ms, also after the 32-bit accumulator
\* has wrapped.
C24_RateDivision ==
    [][last'.op = "Compute"
       => /\ LessU32(localTime, localTime')
          /\ enable =>
               /\ last'.tpRun <=> ElapsedMod(localTime', TP_TASK_PERIOD_MS) = 0
               /\ (last'.sensed # "no")
                     <=> ElapsedMod(localTime', SENS_TASK_PERIOD_MS) = 0
               /\ CalledIn(last'.calls, "Compute", 0)
                     <=> ElapsedMod(localTime', PC_TASK_PERIOD_MS) = 0]_vars

\* the division alone, the accumulator's order left aside
RateDivisionAfterWrap ==
    [][(last'.op = "Compute" /\ enable)
       => /\ last'.tpRun <=> ElapsedMod(localTime', TP_TASK_PERIOD_MS) = 0
          /\ CalledIn(last'.calls, "Compute", 0)
                <=> ElapsedMod(localTime', PC_TASK_PERIOD_MS) = 0]_vars

\* C25: while the machine is at a polling step of LINEAR, ANGULAR or
\* LINEARPLAN, every operation in which the servo does not report arrival and
\* no obstacle is found leaves the mode and the step as they are, leaves
\* isFinished() false and takes no order out of the queue.
C25_StallsWithoutArrival ==
    [][(Polls(tp) /\ ~ last'.arrived /\ last'.sensed # "obstacle")
       => /\ tp'.state = tp.state
          /\ tp'.step = tp.step
          /\ ~ isFinished(tp')
          /\ dequeued' = dequeued
          /\ last'.got = <<>>
          /\ last'.op = "Compute" => Qorders' = Qorders]_vars

C25_Witness ==
    /\ last.op = "Compute"
    /\ last.tpRun
    /\ ~ last.arrived
    /\ last.sensed = "clear"
    /\ last.pre.state = LINEARPLAN
    /\ last.pre.step = 2
    /\ tp.state = LINEARPLAN
    /\ tp.step = 2
    /\ Qorders # <<>>

CalledOf(calls, f) == \E i \in 1..Len(calls) : calls[i].f = f

\* C26: every cycle of the trajectory machine that starts in FREE or STOP
\* commands the servo disabled, pushes no setpoint and leaves the mode as it
\* is; every cycle that starts in another mode commands the servo enabled.
C26_IdleDisablesServo ==
    [][last'.op = "update"
       => IF Idle(tp.state)
          THEN /\ CalledOf(last'.calls, "Disable")
               /\ ~ CalledOf(last'.calls, "Enable")
               /\ Pushes(last'.calls) = <<>>
               /\ ~ position'.enabled
               /\ tp'.state = tp.state
          ELSE CalledOf(last'.calls, "Enable")]_vars

C26_Witness ==
    /\ last.op = "update"
    /\ last.pre.state = STOP
    /\ tp.state = STOP
    /\ CalledOf(last.calls, "Disable")
    /\ ~ position.enabled

\* C27: when the machine returns to FREE from following a path, a setpoint
\* has been handed to the servo in one of the cycles since the path was
\* accepted.
C27_PathPushesSetPoint ==
    (last.op = "update" /\ last.pre.state = DRAWPLAN /\ tp.state = FREE)
        => last.pushed

\* the same for the orders of one segment: the cycle at step 1 pushes
PushesAtStepOne ==
    [][(last'.op = "update" /\ tp.state \in {LINEAR, ANGULAR, LINEARPLAN}
        /\ tp.step = 1)
       => Len(Pushes(last'.calls)) = 2]_vars

\* the indices at which updateXYtoLA(n) reads X and Y
ReadIndices(t, n) ==
    {n} \cup (IF t.XYn >= 2
              THEN UNION {{i, i - 1} : i \in n..(t.XYn - 2)}
              ELSE {})

\* the indices read by the DrawPlan cycle from tp to tp': updateXYtoLA runs on
\* the cursor the cycle starts with and on the cursor it ends with
DrawPlanReads == ReadIndices(tp, CursorAtStart) \cup ReadIndices(tp, tp'.n)

\* C28: every index at which a DrawPlan cycle reads the waypoint buffer is one
\* of the N points of the accepted path, 0 <= i < N, and the cursor stays
\* at most N - 1.
C28_ReadsWithinPath ==
    [][(last'.op = "update" /\ tp.state = DRAWPLAN /\ tp.step \in 1..4)
       => /\ \A i \in DrawPlanReads : 0 <= i /\ i < tp.XYn
          /\ tp'.n <= tp.XYn - 1]_vars

\* the reads that leave the ten-element buffer itself
ReadsWithinBuffer ==
    [][(last'.op = "update" /\ tp.state = DRAWPLAN /\ tp.step \in 1..4)
       => \A i \in DrawPlanReads : i \in 0..9]_vars

\* C29: once a stall order is at step 3, every operation that finds no
\* obstacle leaves the mode and step 3 as they are, leaves isFinished() false
\* and takes no order out of the queue; and every cycle of the machine
\* rebases the odometry again.
C29_StallNeverFinishes ==
    [][(tp.state \in {STALLX, STALLY} /\ tp.step = 3
        /\ last'.sensed # "obstacle")
       => /\ tp'.state = tp.state
          /\ tp'.step = 3
          /\ ~ isFinished(tp')
          /\ dequeued' = dequeued
          /\ last'.got = <<>>
          /\ last'.tpRun =>
                IF tp.state = STALLX
                THEN CalledIn(last'.calls, "SetXO", 0)
                ELSE CalledIn(last'.calls, "SetYO", PI_E8 \div 2)]_vars

C29_Witness ==
    /\ last.op = "Compute"
    /\ last.tpRun
    /\ last.pre.state = STALLX
    /\ last.pre.step = 3
    /\ tp.state = STALLX
    /\ tp.step = 3
    /\ CalledIn(last.calls, "SetXO", 0)
    /\ Qorders # <<>>

\* C30: with the scheduler enabled, no obstruction and arrival within
\* PollBound polls, every accepted GoLinear, GoAngular or GoToPoint order is
\* eventually taken out of the queue and issued, after each issue the machine
\* eventually is in FREE with isFinished() true, and the queue eventually
\* stays empty.
C30_OrdersEventuallyDone ==
    /\ \A k \in 1..MaxSubmitsL : (accepted >= k) ~> (dequeued >= k)
    /\ (last.op = "Compute" /\ last.got # <<>> /\ tp.state # FREE)
          ~> (tp.state = FREE /\ isFinished(tp))
    /\ <>[](Qorders = <<>>)

C30_Witness ==
    /\ accepted = MaxSubmitsL
    /\ dequeued = MaxSubmitsL
    /\ Qorders = <<>>
    /\ last.op = "Compute"
    /\ last.tpRun
    /\ ~ last.pre.finished
    /\ tp.state = FREE
    /\ tp.step = 6
    /\ isFinished(tp)

====
